---- MODULE Spec2Model ----
(***************************************************************************)
(* Model of the REST API of the Dynamic Analysis Agent (src/src/api.py):   *)
(* the two module-level tables active_scans and scan_results, the four     *)
(* /api/v1/scans handlers, and the background worker perform_scan_async,   *)
(* one step per statement that touches shared state or calls a             *)
(* collaborator (ZAP, docker, the vulnerability probe, the tool adapters). *)
(* Handlers run on Flask's threaded server, so any handler may run between *)
(* any two statements of any worker.                                       *)
(* The CLI run of src/main.py and the adapter perform_nmap_scan are        *)
(* modelled beside it.  Timestamps (time.time()), the url of a job and the *)
(* copy of the port kept in the job dict are left out.                     *)
(***************************************************************************)
EXTENDS Integers, Sequences, FiniteSets, TLC

\* Number of scans a client creates in one run of the model.
MaxScans == 2

\* uuid.uuid4() values, in the order they are generated.
ScanIds == 1 .. MaxScans

\* Ids a client may put in the URL of GET/DELETE: 0 is never a scan id.
RequestIds == 0 .. MaxScans

\* JSON bodies of POST /scans as create_scan sees them after get_json():
\* None (no body), a dict without 'image', a dict with 'image'.
Bodies == {"none", "no_image", "image"}

\* A body with 'image' and "port": null.
PortBodies == {"image_port_null"}

\* The external tools of the three adapters; "zap" is the zapv2 library.
Tools == {"nmap", "nikto", "zap"}

\* Return values of test_vulnerabilities: lists of finding dicts.
VulnLists == {<< >>, <<[type |-> "xss"]>>}

\* Lifecycle status strings written by the code.
Statuses == {"pending", "running", "completed", "failed", "cancelled"}

\* An HTTP exchange: the handler, the scan id of the URL (0 when the URL has
\* none), the status code and the JSON body of the response.
Response(op, scan_id, code, body) ==
    [op |-> op, id |-> scan_id, code |-> code, body |-> body]

NoResponse == Response("none", 0, 0, << >>)

VARIABLES
    active_scans,   \* api.py:23  dict scan_id -> job dict
    scan_results,   \* api.py:24  dict scan_id -> results dict
    pc,             \* per scan id: position of its worker thread
    zap_process,    \* worker local: handle returned by start_zap
    results,        \* worker local: the results dict being built
    exc,            \* worker local: message of the exception being handled
    resp,           \* the HTTP response sent by the step just taken
    generated,      \* number of uuid4 values generated so far
    installed,      \* the tools present on the host (never changes)
    port,           \* worker argument: the port of the job (api.py:129)
    calls,          \* per scan id: the collaborator calls its worker made
    main_pc,        \* position of main() of src/main.py
    main_zap,       \* main() local zap_process
    main_calls,     \* the collaborator calls main() made
    main_exc,       \* main(): message of the exception leaving the try block
    main_results,   \* main(): the dict perform_basic_tests builds and returns
    target_up,      \* whether the scanned application answers requests
    zap_hangs,      \* whether the ZAP daemon's scans stay below 100 percent
    fn_args,        \* arguments of a direct call of a function
    fn_ret,         \* what that call returned or raised
    DEFAULT_CONFIG, \* config.py:12  the nested dicts of Config.DEFAULT_CONFIG
    configs         \* the Config instances constructed so far, in order

\* The run of main() of src/main.py.
main_vars == <<main_pc, main_zap, main_calls, main_exc, main_results>>

\* A direct call of perform_nmap_scan, of the summary code or of
\* run_docker_container.
fn_vars == <<fn_args, fn_ret>>

\* The scanned application and the ZAP daemon, as the program finds them.
env_vars == <<target_up, zap_hangs>>

\* The class Config of src/src/config.py and its instances.
config_vars == <<DEFAULT_CONFIG, configs>>

\* What no step of the API server changes.
static_vars == <<installed, env_vars, main_vars, fn_vars, config_vars>>

vars == <<active_scans, scan_results, pc, zap_process, results, exc, resp,
          generated, installed, port, calls, env_vars, main_vars, fn_vars,
          config_vars>>

----
\* Python dict helpers.

\* d[key] = val
DictSet(d, key, val) ==
    [k \in DOMAIN d \cup {key} |-> IF k = key THEN val ELSE d[k]]

\* del d[key]
DictDel(d, key) == [k \in DOMAIN d \ {key} |-> d[k]]

\* d.get(key, default)
DictGet(d, key, default) == IF key \in DOMAIN d THEN d[key] ELSE default

\* {**a, **b}
DictMerge(a, b) ==
    [k \in DOMAIN a \cup DOMAIN b |-> IF k \in DOMAIN b THEN b[k] ELSE a[k]]

\* active_scans[scan_id][field] = val
SetJobField(as, scan_id, field, val) ==
    [as EXCEPT ![scan_id] = DictSet(as[scan_id], field, val)]

----
\* Python values that reach a `port` or `ports` parameter.  Every value is a
\* record of the same shape; `type` is type(x).__name__.

PyInt(n) == [type |-> "int", int |-> n, str |-> "", list |-> << >>]

PyStr(s) == [type |-> "str", int |-> 0, str |-> s, list |-> << >>]

PyNone == [type |-> "NoneType", int |-> 0, str |-> "", list |-> << >>]

PyList(l) == [type |-> "list", int |-> 0, str |-> "", list |-> l]

\* A name that is not bound yet.
Unbound == [type |-> "unbound", int |-> 0, str |-> "", list |-> << >>]

\* The port numbers of the model.
PortNumbers == {80, 443, 8080}

\* What a call returns or raises: `raised` is the class of the exception
\* ("no" when the call returned), `message` is str(e), `value` the result.
Returned(v) == [raised |-> "no", message |-> "", value |-> v]

Raised(class, message) == [raised |-> class, message |-> message, value |-> 0]

\* int(x) of Python for the values above: an int is itself, a str is parsed
\* as a decimal literal, None and a list are a TypeError.
py_int(x) ==
    IF x.type = "int" THEN Returned(x.int)
    ELSE IF x.type = "str"
    THEN IF \E n \in PortNumbers : ToString(n) = x.str
         THEN Returned(CHOOSE n \in PortNumbers : ToString(n) = x.str)
         ELSE Raised("ValueError", "invalid literal for int() with base 10")
    ELSE Raised("TypeError",
                "int() argument must be a string, a bytes-like object or a real number")

\* str(x) of Python.
py_str(x) ==
    IF x.type = "int" THEN ToString(x.int)
    ELSE IF x.type = "str" THEN x.str
    ELSE "None"

\* sep.join(parts)
RECURSIVE Join(_, _)
Join(parts, sep) ==
    IF parts = << >> THEN ""
    ELSE IF Len(parts) = 1 THEN parts[1]
    ELSE parts[1] \o sep \o Join(Tail(parts), sep)

----
\* perform_nmap_scan (src/src/tools/nmap_scanner.py:26-82).

\* What subprocess.run(['nmap', ...], timeout=30) does: it returns a
\* CompletedProcess or raises.
Completed(returncode, stdout, stderr) ==
    [raised |-> "no", returncode |-> returncode, stdout |-> stdout,
     stderr |-> stderr, message |-> ""]

RunRaises(class, message) ==
    [raised |-> class, returncode |-> 0, stdout |-> "", stderr |-> "",
     message |-> message]

\* The outcomes of subprocess.run on a host: FileNotFoundError exactly when
\* the nmap binary is missing.
NmapRuns(tools) ==
    IF "nmap" \in tools
    THEN {Completed(0, "Nmap scan report", ""),
          Completed(1, "", "Failed to resolve hostname"),
          RunRaises("TimeoutExpired", "timed out after 30 seconds"),
          RunRaises("Exception", "Network error")}
    ELSE {RunRaises("FileNotFoundError", "No such file or directory: 'nmap'")}

\* The return value of perform_nmap_scan: None or a dict.
NmapNone == [none |-> TRUE, success |-> FALSE, output |-> "", error |-> "",
             cmd |-> << >>]

NmapRecord(success, output, error, cmd) ==
    [none |-> FALSE, success |-> success, output |-> output, error |-> error,
     cmd |-> cmd]

\* nmap_scanner.py:38-41: `ports` made a list, outside the try block.
nmap_ports(ports) ==
    IF ports.type = "int" THEN Returned(<<ports>>)
    ELSE IF ports.type # "list"
    THEN LET n == py_int(ports)
         IN IF n.raised = "no" THEN Returned(<<PyInt(n.value)>>)
            ELSE [n EXCEPT !.value = << >>]
    ELSE Returned(ports.list)

\* nmap_scanner.py:43
port_str(ports) == Join([i \in DOMAIN ports |-> py_str(ports[i])], ",")

\* perform_nmap_scan(host, ports) when subprocess.run does `run`.
perform_nmap_scan(host, ports, run) ==
    LET list == nmap_ports(ports)
        cmd == <<"nmap", "-sV", "-p", port_str(list.value), host>>
    IN IF list.raised # "no"
       THEN [list EXCEPT !.value = NmapNone]
       ELSE IF run.raised = "no"
       THEN IF run.returncode = 0
            THEN Returned(NmapRecord(TRUE, run.stdout, "", cmd))
            ELSE Returned(NmapRecord(FALSE, "", run.stderr, cmd))
       ELSE IF run.raised = "FileNotFoundError" THEN Returned(NmapNone)
       ELSE IF run.raised = "TimeoutExpired"
       THEN Returned(NmapRecord(FALSE, "", "Timeout", cmd))
       ELSE Returned(NmapRecord(FALSE, "", run.message, cmd))

\* No call of perform_nmap_scan was made.
NoArgs == [host |-> "", ports |-> Unbound, run |-> RunRaises("no call", "")]

NotCalled == [raised |-> "no call", message |-> "", value |-> NmapNone]

\* Config.DEFAULT_CONFIG as the class statement builds it (config.py:12-51),
\* of which the model keeps two sections with one key each.
BuiltInDefaults ==
    [docker |-> [default_container_name |-> "test-app"],
     logging |-> [level |-> "INFO"]]

\* The class Config is defined and no instance exists yet.
ClassDefined == DEFAULT_CONFIG = BuiltInDefaults /\ configs = << >>

\* The application answers and ZAP's scans finish.
NormalEnv == target_up = TRUE /\ zap_hangs = FALSE

\* No function is called directly.
NoDirectCall == fn_args = NoArgs /\ fn_ret = NotCalled

----
\* Initial state: both tables empty (api.py:23-24), no worker thread exists.

Init ==
    /\ active_scans = << >>
    /\ scan_results = << >>
    /\ pc = [i \in ScanIds |-> "none"]
    /\ zap_process = [i \in ScanIds |-> "unbound"]
    /\ results = [i \in ScanIds |-> << >>]
    /\ exc = [i \in ScanIds |-> "None"]
    /\ resp = NoResponse
    /\ generated = 0
    /\ installed \in SUBSET Tools
    /\ port = [i \in ScanIds |-> Unbound]
    /\ calls = [i \in ScanIds |-> << >>]
    /\ main_pc = "run_api"
    /\ main_zap = "unbound"
    /\ main_calls = << >>
    /\ main_exc = "None"
    /\ main_results = << >>
    /\ NormalEnv
    /\ ClassDefined
    /\ NoDirectCall

worker_vars == <<pc, zap_process, results, exc, calls>>

----
\* HTTP handlers (api.py:104-182).  Each handler is one atomic step.

\* uuid.uuid4(): a value no earlier call returned.
uuid4 == generated + 1

\* request.get_json() and the test of api.py:109.
HasImage(body) == body \in {"image", "image_port_null"}

\* config.get('docker.default_port', 8080)
default_port == 8080

\* data.get('port', config.get('docker.default_port', 8080)) (api.py:114):
\* the value of the key when the body has it, null included.
PortOf(body) == IF body = "image_port_null" THEN PyNone ELSE PyInt(default_port)

\* The job dict of api.py:117-124.
NewJob(scan_id, body) ==
    [id |-> scan_id, image |-> "img", status |-> "pending"]

\* create_scan with the thread never started.
create_scan_no_thread(body) ==
    IF ~HasImage(body)
    THEN /\ resp' = Response("create", 0, 400,
                              [error |-> "Missing required field: image"])
         /\ UNCHANGED <<active_scans, scan_results, worker_vars, generated,
                         port, static_vars>>
    ELSE /\ generated < MaxScans
         /\ generated' = generated + 1
         /\ active_scans' = DictSet(active_scans, uuid4, NewJob(uuid4, body))
         /\ port' = [port EXCEPT ![uuid4] = PortOf(body)]
         /\ resp' = Response("create", 0, 201,
                              [scan_id |-> uuid4, status |-> "pending",
                               message |-> "Scan started successfully"])
         /\ UNCHANGED <<scan_results, worker_vars, static_vars>>

\* create_scan with the test of api.py:109 left out.
create_scan_unvalidated(body) ==
    /\ generated < MaxScans
    /\ generated' = generated + 1
    /\ active_scans' = DictSet(active_scans, uuid4, NewJob(uuid4, body))
    /\ port' = [port EXCEPT ![uuid4] = PortOf(body)]
    /\ pc' = [pc EXCEPT ![uuid4] = "set_running"]
    /\ resp' = Response("create", 0, 201,
                         [scan_id |-> uuid4, status |-> "pending",
                          message |-> "Scan started successfully"])
    /\ UNCHANGED <<scan_results, zap_process, results, exc, calls,
                         static_vars>>

\* POST /api/v1/scans
create_scan(body) ==
    IF ~HasImage(body)
    THEN /\ resp' = Response("create", 0, 400,
                              [error |-> "Missing required field: image"])
         /\ UNCHANGED <<active_scans, scan_results, worker_vars, generated,
                         port, static_vars>>
    ELSE /\ generated < MaxScans
         /\ generated' = generated + 1
         /\ active_scans' = DictSet(active_scans, uuid4, NewJob(uuid4, body))
         /\ port' = [port EXCEPT ![uuid4] = PortOf(body)]
         \* threading.Thread(target=perform_scan_async, ...).start()
         /\ pc' = [pc EXCEPT ![uuid4] = "set_running"]
         /\ resp' = Response("create", 0, 201,
                              [scan_id |-> uuid4, status |-> "pending",
                               message |-> "Scan started successfully"])
         /\ UNCHANGED <<scan_results, zap_process, results, exc, calls,
                         static_vars>>

\* One element of the list built by list_scans (api.py:145-151).
ScanEntry(scan_id, scan_info) ==
    [id |-> scan_id,
     status |-> DictGet(scan_info, "status", "unknown"),
     image |-> DictGet(scan_info, "image", "None"),
     target |-> DictGet(scan_info, "target", "None")]

\* The keys of a dict whose keys are scan ids, in insertion order: ids are
\* inserted in the order they are generated.
RECURSIVE KeysInOrder(_, _)
KeysInOrder(d, n) ==
    IF n = 0 THEN << >>
    ELSE IF n \in DOMAIN d THEN Append(KeysInOrder(d, n - 1), n)
    ELSE KeysInOrder(d, n - 1)

\* The body of the response of GET /api/v1/scans.
list_scans_response(as, sr) ==
    LET merged == DictMerge(as, sr)
        keys == KeysInOrder(merged, MaxScans)
    IN Response("list", 0, 200,
                [scans |-> [i \in 1 .. Len(keys) |->
                               ScanEntry(keys[i], merged[keys[i]])]])

\* GET /api/v1/scans
list_scans ==
    /\ resp' = list_scans_response(active_scans, scan_results)
    /\ UNCHANGED <<active_scans, scan_results, worker_vars, generated, port,
                   static_vars>>

\* get_scan answering an unknown id with an empty job instead of 404.
get_scan_response_no_404(as, sr, scan_id) ==
    IF scan_id \in DOMAIN sr
    THEN Response("get", scan_id, 200, sr[scan_id])
    ELSE IF scan_id \in DOMAIN as
    THEN Response("get", scan_id, 200,
                  [id |-> scan_id,
                   status |-> as[scan_id]["status"],
                   image |-> as[scan_id]["image"],
                   error |-> DictGet(as[scan_id], "error", "None")])
    ELSE Response("get", scan_id, 200, << >>)

\* The response of GET /api/v1/scans/<scan_id>.
get_scan_response(as, sr, scan_id) ==
    IF scan_id \in DOMAIN sr
    THEN Response("get", scan_id, 200, sr[scan_id])
    ELSE IF scan_id \in DOMAIN as
    THEN Response("get", scan_id, 200,
                  [id |-> scan_id,
                   status |-> as[scan_id]["status"],
                   image |-> as[scan_id]["image"],
                   error |-> DictGet(as[scan_id], "error", "None")])
    ELSE Response("get", scan_id, 404, [error |-> "Scan not found"])

\* GET /api/v1/scans/<scan_id>
get_scan(scan_id) ==
    /\ resp' = get_scan_response(active_scans, scan_results, scan_id)
    /\ UNCHANGED <<active_scans, scan_results, worker_vars, generated, port,
                   static_vars>>

\* DELETE /api/v1/scans/<scan_id>
delete_scan(scan_id) ==
    /\ IF scan_id \in DOMAIN scan_results
       THEN /\ scan_results' = DictDel(scan_results, scan_id)
            /\ resp' = Response("delete", scan_id, 200,
                                 [message |-> "Scan deleted successfully"])
            /\ UNCHANGED active_scans
       ELSE IF scan_id \in DOMAIN active_scans
       THEN /\ active_scans' =
                   SetJobField(active_scans, scan_id, "status", "cancelled")
            /\ resp' = Response("delete", scan_id, 200,
                                 [message |-> "Scan cancelled"])
            /\ UNCHANGED scan_results
       ELSE /\ resp' = Response("delete", scan_id, 404,
                                 [error |-> "Scan not found"])
            /\ UNCHANGED <<active_scans, scan_results>>
    /\ UNCHANGED <<worker_vars, generated, port, static_vars>>

----
\* The worker thread perform_scan_async (api.py:26-102), one step per
\* statement that writes a table or calls a collaborator.

\* A worker step sends no HTTP response and generates no id.
WorkerStep == resp' = NoResponse /\ UNCHANGED <<generated, port, static_vars>>

\* The worker of scan_id calls collaborator fn; val is the value the call
\* returned (start_zap, run_docker_container) or was given (stop_zap), or
\* whether it returned None, returned a record or raised (the probe and the
\* adapters).
Call(scan_id, fn, val) ==
    calls' = [calls EXCEPT ![scan_id] = Append(@, [fn |-> fn, val |-> val])]

\* A statement that calls no collaborator.
NoCall == UNCHANGED calls

\* Move the worker of scan_id to position p.
Goto(scan_id, p) == pc' = [pc EXCEPT ![scan_id] = p]

\* An exception raised inside the try block: control goes to api.py:97.
Raise(scan_id, message) ==
    /\ exc' = [exc EXCEPT ![scan_id] = message]
    /\ Goto(scan_id, "except_status")

\* What perform_nikto_scan and perform_zap_scan return: None when the tool
\* is missing, else a success or a failure record; neither raises
\* (nikto_scanner.py:37-79, zap_scanner.py:71-108).
AdapterResults(tool) ==
    IF tool \in installed THEN {"success", "failure"} ELSE {"None"}

\* AppendTool with the test `if r:` left out: a None result is appended too.
AppendTool_unconditional(res, name, r) ==
    [res EXCEPT !.tools = Append(@, [name |-> name])]

\* results["tools"].append({"name": name, "results": r}) if r is truthy
\* (api.py:66-67, 70-71, 74-75); r is None or a non-empty dict, whose
\* content api.py never reads.
AppendTool(res, name, r) ==
    IF r = "None" THEN res
    ELSE [res EXCEPT !.tools = Append(@, [name |-> name])]

\* api.py:37
set_running(scan_id) ==
    /\ pc[scan_id] = "set_running"
    /\ active_scans' = SetJobField(active_scans, scan_id, "status", "running")
    /\ Goto(scan_id, "start_zap")
    /\ UNCHANGED <<scan_results, zap_process, results, exc>>
    /\ NoCall
    /\ WorkerStep

\* api.py:43; start_zap returns None when zapv2 is missing, else a process
\* handle, or None when zap.sh cannot be started; it never raises
\* (zap_scanner.py:30-58).
start_zap(scan_id) ==
    /\ pc[scan_id] = "start_zap"
    /\ \E h \in IF "zap" \in installed THEN {"None", "proc"} ELSE {"None"} :
           /\ zap_process' = [zap_process EXCEPT ![scan_id] = h]
           /\ Call(scan_id, "start_zap", h)
    /\ Goto(scan_id, "run_container")
    /\ UNCHANGED <<active_scans, scan_results, results, exc>>
    /\ WorkerStep

\* run_container with the test of api.py:46 left out: the scan goes on
\* whatever run_docker_container returned.
run_container_unchecked(scan_id) ==
    /\ pc[scan_id] = "run_container"
    /\ \E started \in BOOLEAN :
        /\ Call(scan_id, "run_docker_container",
                IF started THEN "True" ELSE "False")
        /\ results' = [results EXCEPT ![scan_id] =
               [target |-> "base_url", vulnerabilities |-> << >>,
                tools |-> << >>, summary |-> << >>]]
        /\ Goto(scan_id, "test_vulnerabilities")
    /\ UNCHANGED <<active_scans, scan_results, zap_process, exc>>
    /\ WorkerStep

\* api.py:46; run_docker_container returns True or False and never raises
\* (docker_manager.py:7-49).  On True the results dict of api.py:52-58 is
\* created.
run_container(scan_id) ==
    /\ pc[scan_id] = "run_container"
    /\ \E started \in BOOLEAN :
        /\ Call(scan_id, "run_docker_container",
                IF started THEN "True" ELSE "False")
        /\ IF started
           THEN /\ results' = [results EXCEPT ![scan_id] =
                       [target |-> "base_url", vulnerabilities |-> << >>,
                        tools |-> << >>, summary |-> << >>]]
                /\ Goto(scan_id, "test_vulnerabilities")
           ELSE /\ Goto(scan_id, "failed_status")
                /\ UNCHANGED results
    /\ UNCHANGED <<active_scans, scan_results, zap_process, exc>>
    /\ WorkerStep

\* api.py:47
failed_status(scan_id) ==
    /\ pc[scan_id] = "failed_status"
    /\ active_scans' = SetJobField(active_scans, scan_id, "status", "failed")
    /\ Goto(scan_id, "failed_error")
    /\ UNCHANGED <<scan_results, zap_process, results, exc>>
    /\ NoCall
    /\ WorkerStep

\* failed_error with the return of api.py:49 skipping the finally clause.
failed_error_no_finally(scan_id) ==
    /\ pc[scan_id] = "failed_error"
    /\ active_scans' = SetJobField(active_scans, scan_id, "error",
                                   "Failed to start container")
    /\ Goto(scan_id, "done")
    /\ zap_process' = [zap_process EXCEPT ![scan_id] = "unbound"]
    /\ UNCHANGED <<scan_results, results, exc>>
    /\ NoCall
    /\ WorkerStep

\* api.py:48-49; the return runs the finally clause.
failed_error(scan_id) ==
    /\ pc[scan_id] = "failed_error"
    /\ active_scans' = SetJobField(active_scans, scan_id, "error",
                                   "Failed to start container")
    /\ Goto(scan_id, "stop_zap")
    /\ UNCHANGED <<scan_results, zap_process, results, exc>>
    /\ NoCall
    /\ WorkerStep

\* test_vulnerabilities with api.py:64-67 moved behind the ZAP scan: nikto
\* follows the probe.
test_vulnerabilities_then_nikto(scan_id) ==
    /\ pc[scan_id] = "test_vulnerabilities"
    /\ \/ /\ \E v \in VulnLists :
                results' = [results EXCEPT ![scan_id].vulnerabilities = @ \o v]
          /\ Call(scan_id, "test_vulnerabilities", "returned")
          /\ Goto(scan_id, "nikto")
          /\ UNCHANGED exc
       \/ /\ Raise(scan_id, "probe error")
          /\ Call(scan_id, "test_vulnerabilities", "raised")
          /\ UNCHANGED results
    /\ UNCHANGED <<active_scans, scan_results, zap_process>>
    /\ WorkerStep

\* api.py:61-62; the probe returns a list of findings or raises.
test_vulnerabilities(scan_id) ==
    /\ pc[scan_id] = "test_vulnerabilities"
    /\ \/ /\ \E v \in VulnLists :
                results' = [results EXCEPT ![scan_id].vulnerabilities = @ \o v]
          /\ Call(scan_id, "test_vulnerabilities", "returned")
          /\ Goto(scan_id, "nmap")
          /\ UNCHANGED exc
       \/ /\ Raise(scan_id, "probe error")
          /\ Call(scan_id, "test_vulnerabilities", "raised")
          /\ UNCHANGED results
    /\ UNCHANGED <<active_scans, scan_results, zap_process>>
    /\ WorkerStep

\* What api.py reads of an adapter's return value.
Truthiness(r) ==
    IF r.none THEN "None" ELSE IF r.success THEN "success" ELSE "failure"

\* What the call log keeps of an adapter's return value.
NoneOrRecord(r) == IF r = "None" THEN "None" ELSE "record"

LoggedReturn(value) == NoneOrRecord(Truthiness(value))

\* perform_zap_scan with zapv2 present and a daemon whose spider or active
\* scan never reports 100: the loops of zap_scanner.py:82-83 and 88-89 have
\* no other exit.
ZapScanHangs == "zap" \in installed /\ zap_hangs

\* api.py:65-67; an exception perform_nmap_scan raises goes to api.py:97.
nmap(scan_id) ==
    /\ pc[scan_id] = "nmap"
    /\ \E run \in NmapRuns(installed) :
           LET r == perform_nmap_scan("localhost", port[scan_id], run)
           IN IF r.raised = "no"
              THEN /\ results' = [results EXCEPT ![scan_id] =
                          AppendTool(@, "nmap", Truthiness(r.value))]
                   /\ Call(scan_id, "perform_nmap_scan", LoggedReturn(r.value))
                   /\ Goto(scan_id, "nikto")
                   /\ UNCHANGED exc
              ELSE /\ Raise(scan_id, r.message)
                   /\ Call(scan_id, "perform_nmap_scan", "raised")
                   /\ UNCHANGED results
    /\ UNCHANGED <<active_scans, scan_results, zap_process>>
    /\ WorkerStep

\* nikto with the later adapter skipped when nikto is unavailable.
nikto_stops_on_none(scan_id) ==
    /\ pc[scan_id] = "nikto"
    /\ \E r \in AdapterResults("nikto") :
           /\ results' = [results EXCEPT ![scan_id] = AppendTool(@, "nikto", r)]
           /\ Call(scan_id, "perform_nikto_scan", NoneOrRecord(r))
           /\ Goto(scan_id, IF r = "None" THEN "summary" ELSE "zap_scan")
    /\ UNCHANGED <<active_scans, scan_results, zap_process, exc>>
    /\ WorkerStep

\* api.py:69-71
nikto(scan_id) ==
    /\ pc[scan_id] = "nikto"
    /\ \E r \in AdapterResults("nikto") :
           /\ results' = [results EXCEPT ![scan_id] = AppendTool(@, "nikto", r)]
           /\ Call(scan_id, "perform_nikto_scan", NoneOrRecord(r))
    /\ Goto(scan_id, "zap_scan")
    /\ UNCHANGED <<active_scans, scan_results, zap_process, exc>>
    /\ WorkerStep

\* api.py:73-75; while ZAP's scans stay below 100 percent the loops of
\* zap_scanner.py:82-89 go on and the call does not return.
zap_scan(scan_id) ==
    /\ pc[scan_id] = "zap_scan"
    /\ IF ZapScanHangs
       THEN UNCHANGED <<pc, results, calls>>
       ELSE /\ \E r \in AdapterResults("zap") :
                  /\ results' = [results EXCEPT ![scan_id] =
                         AppendTool(@, "zap", r)]
                  /\ Call(scan_id, "perform_zap_scan", NoneOrRecord(r))
            /\ Goto(scan_id, "summary")
    /\ UNCHANGED <<active_scans, scan_results, zap_process, exc>>
    /\ WorkerStep

\* vuln.get("type", "Unknown")
VulnType(vuln) == DictGet(vuln, "type", "Unknown")

\* The loop with `vuln_types[vuln_type] = 1` as its body: a type is marked,
\* not counted.
vuln_types_marked(vulnerabilities) ==
    LET types == {VulnType(vulnerabilities[i]) : i \in DOMAIN vulnerabilities}
    IN [t \in types |-> 1]

\* The loop of api.py:78-81: number of findings of each type.
vuln_types(vulnerabilities) ==
    LET types == {VulnType(vulnerabilities[i]) : i \in DOMAIN vulnerabilities}
    IN [t \in types |->
           Cardinality({i \in DOMAIN vulnerabilities :
                           VulnType(vulnerabilities[i]) = t})]

\* The summary dict of api.py:83-88.
Summary(res) ==
    [total_vulnerabilities |-> Len(res.vulnerabilities),
     vulnerability_types |-> vuln_types(res.vulnerabilities),
     tools_run |-> Len(res.tools)]

\* api.py:77-88
summary(scan_id) ==
    /\ pc[scan_id] = "summary"
    /\ results' = [results EXCEPT ![scan_id].summary = Summary(results[scan_id])]
    /\ Goto(scan_id, "store_results")
    /\ UNCHANGED <<active_scans, scan_results, zap_process, exc>>
    /\ NoCall
    /\ WorkerStep

\* api.py:91
store_results(scan_id) ==
    /\ pc[scan_id] = "store_results"
    /\ scan_results' = DictSet(scan_results, scan_id, results[scan_id])
    /\ Goto(scan_id, "completed_status")
    /\ UNCHANGED <<active_scans, zap_process, results, exc>>
    /\ NoCall
    /\ WorkerStep

\* api.py:92
completed_status(scan_id) ==
    /\ pc[scan_id] = "completed_status"
    /\ active_scans' = SetJobField(active_scans, scan_id, "status", "completed")
    /\ Goto(scan_id, "cleanup_container")
    /\ UNCHANGED <<scan_results, zap_process, results, exc>>
    /\ NoCall
    /\ WorkerStep

\* api.py:95; cleanup_container never raises (docker_manager.py:51-63).
cleanup_container(scan_id) ==
    /\ pc[scan_id] = "cleanup_container"
    /\ Goto(scan_id, "stop_zap")
    /\ UNCHANGED <<active_scans, scan_results, zap_process, results, exc>>
    /\ Call(scan_id, "cleanup_container", "-")
    /\ WorkerStep

\* api.py:99
except_status(scan_id) ==
    /\ pc[scan_id] = "except_status"
    /\ active_scans' = SetJobField(active_scans, scan_id, "status", "failed")
    /\ Goto(scan_id, "except_error")
    /\ UNCHANGED <<scan_results, zap_process, results, exc>>
    /\ NoCall
    /\ WorkerStep

\* except_error with a fixed text in place of str(e).
except_error_fixed_text(scan_id) ==
    /\ pc[scan_id] = "except_error"
    /\ active_scans' = SetJobField(active_scans, scan_id, "error", "Scan failed")
    /\ Goto(scan_id, "stop_zap")
    /\ UNCHANGED <<scan_results, zap_process, results, exc>>
    /\ NoCall
    /\ WorkerStep

\* api.py:100
except_error(scan_id) ==
    /\ pc[scan_id] = "except_error"
    /\ active_scans' = SetJobField(active_scans, scan_id, "error", exc[scan_id])
    /\ Goto(scan_id, "stop_zap")
    /\ UNCHANGED <<scan_results, zap_process, results, exc>>
    /\ NoCall
    /\ WorkerStep

\* api.py:101-102; the thread ends and its locals die.
stop_zap(scan_id) ==
    /\ pc[scan_id] = "stop_zap"
    /\ Goto(scan_id, "done")
    /\ zap_process' = [zap_process EXCEPT ![scan_id] = "unbound"]
    /\ results' = [results EXCEPT ![scan_id] = << >>]
    /\ exc' = [exc EXCEPT ![scan_id] = "None"]
    /\ UNCHANGED <<active_scans, scan_results>>
    /\ Call(scan_id, "stop_zap", zap_process[scan_id])
    /\ WorkerStep

\* One step of the worker thread of scan_id.
perform_scan_async(scan_id) ==
    \/ set_running(scan_id)
    \/ start_zap(scan_id)
    \/ run_container(scan_id)
    \/ failed_status(scan_id)
    \/ failed_error(scan_id)
    \/ test_vulnerabilities(scan_id)
    \/ nmap(scan_id)
    \/ nikto(scan_id)
    \/ zap_scan(scan_id)
    \/ summary(scan_id)
    \/ store_results(scan_id)
    \/ completed_status(scan_id)
    \/ cleanup_container(scan_id)
    \/ except_status(scan_id)
    \/ except_error(scan_id)
    \/ stop_zap(scan_id)

----
\* The command-line run: main() of src/main.py (lines 447-553) with
\* perform_basic_tests (lines 36-143) and cleanup (lines 436-445) inlined.

\* main() calls collaborator fn.
MainCall(fn, val) == main_calls' = Append(main_calls, [fn |-> fn, val |-> val])

\* A step of main() leaves the tables of the API alone.
MainStep ==
    /\ resp' = NoResponse
    /\ UNCHANGED <<active_scans, scan_results, worker_vars, generated, port,
                   installed, env_vars, fn_vars, config_vars>>

\* main.py:503-518: --create-config returns at once, --api runs the server,
\* else --image starts a scan.
main_parse_args ==
    /\ main_pc = "main"
    /\ \E mode \in {"create_config", "api", "scan"} :
           main_pc' = CASE mode = "create_config" -> "exit_0"
                        [] mode = "api" -> "run_api"
                        [] mode = "scan" -> "start_zap"
    /\ UNCHANGED <<main_zap, main_calls, main_exc, main_results>>
    /\ MainStep

\* main.py:535
main_start_zap ==
    /\ main_pc = "start_zap"
    /\ \E h \in IF "zap" \in installed THEN {"None", "proc"} ELSE {"None"} :
           /\ main_zap' = h
           /\ MainCall("start_zap", h)
    /\ main_pc' = "run_container"
    /\ UNCHANGED <<main_exc, main_results>>
    /\ MainStep

\* main.py:538
main_run_container ==
    /\ main_pc = "run_container"
    /\ \E started \in BOOLEAN :
        /\ MainCall("run_docker_container", IF started THEN "True" ELSE "False")
        /\ main_pc' = IF started THEN "connectivity" ELSE "container_failed"
    /\ UNCHANGED <<main_zap, main_exc, main_results>>
    /\ MainStep

\* main.py:539-541: stop_zap(zap_process); sys.exit(1)
main_container_failed ==
    /\ main_pc = "container_failed"
    /\ MainCall("stop_zap", main_zap)
    /\ main_pc' = "exit_1"
    /\ UNCHANGED <<main_zap, main_exc, main_results>>
    /\ MainStep

\* main.py:48-85: the results dict is created; requests.get answers 2xx,
\* answers another status, or raises RequestException (always, when the
\* application is down); without a 2xx answer perform_basic_tests returns
\* the dict at once.
main_connectivity ==
    /\ main_pc = "connectivity"
    /\ \E connectivity_ok \in IF target_up THEN BOOLEAN ELSE {FALSE} :
           /\ main_results' =
                  [target |-> "base_url", vulnerabilities |-> << >>,
                   tools |-> << >>, summary |-> << >>,
                   connectivity |-> connectivity_ok]
           /\ main_pc' = IF connectivity_ok THEN "test_vulnerabilities"
                         ELSE "export_results"
    /\ UNCHANGED <<main_zap, main_calls, main_exc>>
    /\ MainStep

\* main.py:90; an exception leaves perform_basic_tests and the try block of
\* main.py:544 for its finally clause.
main_test_vulnerabilities ==
    /\ main_pc = "test_vulnerabilities"
    /\ \/ /\ \E v \in VulnLists :
                main_results' = [main_results EXCEPT !.vulnerabilities = @ \o v]
          /\ MainCall("test_vulnerabilities", "returned")
          /\ main_pc' = "nmap"
          /\ UNCHANGED main_exc
       \/ /\ MainCall("test_vulnerabilities", "raised")
          /\ main_pc' = "cleanup_container"
          /\ main_exc' = "probe error"
          /\ UNCHANGED main_results
    /\ UNCHANGED main_zap
    /\ MainStep

\* main.py:98-100; args.port is an int (type=int, main.py:457).
main_nmap ==
    /\ main_pc = "nmap"
    /\ \E run \in NmapRuns(installed) :
           LET r == perform_nmap_scan("localhost", PyInt(default_port), run)
           IN IF r.raised = "no"
              THEN /\ MainCall("perform_nmap_scan", LoggedReturn(r.value))
                   /\ main_results' =
                          AppendTool(main_results, "nmap", Truthiness(r.value))
                   /\ main_pc' = "nikto"
                   /\ UNCHANGED main_exc
              ELSE /\ MainCall("perform_nmap_scan", "raised")
                   /\ main_pc' = "cleanup_container"
                   /\ main_exc' = r.message
                   /\ UNCHANGED main_results
    /\ UNCHANGED main_zap
    /\ MainStep

\* main.py:109-111
main_nikto ==
    /\ main_pc = "nikto"
    /\ \E r \in AdapterResults("nikto") :
           /\ main_results' = AppendTool(main_results, "nikto", r)
           /\ MainCall("perform_nikto_scan", NoneOrRecord(r))
    /\ main_pc' = "zap_scan"
    /\ UNCHANGED <<main_zap, main_exc>>
    /\ MainStep

\* main.py:120-122; while ZAP's scans stay below 100 percent the loops of
\* zap_scanner.py:82-89 go on.
main_zap_scan ==
    /\ main_pc = "zap_scan"
    /\ IF ZapScanHangs
       THEN UNCHANGED <<main_pc, main_calls, main_results>>
       ELSE /\ \E r \in AdapterResults("zap") :
                  /\ main_results' = AppendTool(main_results, "zap", r)
                  /\ MainCall("perform_zap_scan", NoneOrRecord(r))
            /\ main_pc' = "summary"
    /\ UNCHANGED <<main_zap, main_exc>>
    /\ MainStep

\* main.py:127-143: the summary, then perform_basic_tests returns.
main_summary ==
    /\ main_pc = "summary"
    /\ main_results' = [main_results EXCEPT !.summary = Summary(main_results)]
    /\ main_pc' = "export_results"
    /\ UNCHANGED <<main_zap, main_calls, main_exc>>
    /\ MainStep

\* main.py:549
main_export_results ==
    /\ main_pc = "export_results"
    /\ main_pc' = "cleanup_container"
    /\ UNCHANGED <<main_zap, main_calls, main_exc, main_results>>
    /\ MainStep

\* main.py:551-553 and 444: cleanup_container(container_name)
main_cleanup_container ==
    /\ main_pc = "cleanup_container"
    /\ MainCall("cleanup_container", "-")
    /\ main_pc' = "stop_zap"
    /\ UNCHANGED <<main_zap, main_exc, main_results>>
    /\ MainStep

\* main.py:445: stop_zap(zap_process); then main() returns or the exception
\* goes on.
main_stop_zap ==
    /\ main_pc = "stop_zap"
    /\ MainCall("stop_zap", main_zap)
    /\ main_pc' = IF main_exc = "None" THEN "exit_0" ELSE "raised"
    /\ UNCHANGED <<main_zap, main_exc, main_results>>
    /\ MainStep

\* One step of main() outside the API server.
main ==
    \/ main_parse_args
    \/ main_start_zap
    \/ main_run_container
    \/ main_container_failed
    \/ main_connectivity
    \/ main_test_vulnerabilities
    \/ main_nmap
    \/ main_nikto
    \/ main_zap_scan
    \/ main_summary
    \/ main_export_results
    \/ main_cleanup_container
    \/ main_stop_zap

----
\* A direct call of perform_nmap_scan, as the unit tests make it.

Hosts == {"localhost", "invalid-host"}

\* Values passed as `ports`.
PortArgs ==
    {PyInt(80), PyInt(8080), PyStr("80"), PyStr("http"), PyNone,
     PyList(<<PyInt(80)>>), PyList(<<PyInt(80), PyInt(443)>>),
     PyList(<<PyStr("80"), PyStr("443")>>)}

call_perform_nmap_scan ==
    /\ fn_ret = NotCalled
    /\ fn_args # NoArgs
    /\ fn_ret' = perform_nmap_scan(fn_args.host, fn_args.ports, fn_args.run)
    /\ UNCHANGED <<active_scans, scan_results, worker_vars, resp, generated,
                   installed, port, env_vars, main_vars, fn_args, config_vars>>

----
Next ==
    \/ \E body \in Bodies : create_scan(body)
    \/ list_scans
    \/ \E scan_id \in RequestIds : get_scan(scan_id)
    \/ \E scan_id \in RequestIds : delete_scan(scan_id)
    \/ \E scan_id \in ScanIds : perform_scan_async(scan_id)

Spec == Init /\ [][Next]_vars

\* The runs in which no client ever sends a DELETE.
NextNoDelete ==
    \/ \E body \in Bodies : create_scan(body)
    \/ list_scans
    \/ \E scan_id \in RequestIds : get_scan(scan_id)
    \/ \E scan_id \in ScanIds : perform_scan_async(scan_id)

SpecNoDelete == Init /\ [][NextNoDelete]_vars

\* The runs in which clients also send "port": null, and no DELETE.
NextPorts ==
    \/ \E body \in Bodies \cup PortBodies : create_scan(body)
    \/ list_scans
    \/ \E scan_id \in RequestIds : get_scan(scan_id)
    \/ \E scan_id \in ScanIds : perform_scan_async(scan_id)

SpecPorts == Init /\ [][NextPorts]_vars

\* The program from its entry point main(): the API server handles requests
\* once run_api (api.py:204-214) runs.
InitMain ==
    /\ active_scans = << >>
    /\ scan_results = << >>
    /\ pc = [i \in ScanIds |-> "none"]
    /\ zap_process = [i \in ScanIds |-> "unbound"]
    /\ results = [i \in ScanIds |-> << >>]
    /\ exc = [i \in ScanIds |-> "None"]
    /\ resp = NoResponse
    /\ generated = 0
    /\ installed \in SUBSET Tools
    /\ port = [i \in ScanIds |-> Unbound]
    /\ calls = [i \in ScanIds |-> << >>]
    /\ main_pc = "main"
    /\ main_zap = "unbound"
    /\ main_calls = << >>
    /\ main_exc = "None"
    /\ main_results = << >>
    /\ NormalEnv
    /\ ClassDefined
    /\ NoDirectCall

NextMain ==
    \/ main
    \/ \E body \in Bodies : main_pc = "run_api" /\ create_scan(body)
    \/ main_pc = "run_api" /\ list_scans
    \/ \E scan_id \in RequestIds : main_pc = "run_api" /\ get_scan(scan_id)
    \/ \E scan_id \in RequestIds : main_pc = "run_api" /\ delete_scan(scan_id)
    \/ \E scan_id \in ScanIds : perform_scan_async(scan_id)

SpecMain == InitMain /\ [][NextMain]_vars

\* The API server just started, no request received yet.
ServerStarted ==
    /\ active_scans = << >>
    /\ scan_results = << >>
    /\ pc = [i \in ScanIds |-> "none"]
    /\ zap_process = [i \in ScanIds |-> "unbound"]
    /\ results = [i \in ScanIds |-> << >>]
    /\ exc = [i \in ScanIds |-> "None"]
    /\ resp = NoResponse
    /\ generated = 0
    /\ port = [i \in ScanIds |-> Unbound]
    /\ calls = [i \in ScanIds |-> << >>]
    /\ main_pc = "run_api"
    /\ main_zap = "unbound"
    /\ main_calls = << >>
    /\ main_exc = "None"
    /\ main_results = << >>

\* The API server, with no DELETE, beside a ZAP daemon that may never
\* finish a scan.  A worker thread that can take a step is scheduled
\* eventually.
InitZap ==
    /\ ServerStarted
    /\ installed \in SUBSET Tools
    /\ target_up = TRUE
    /\ zap_hangs \in BOOLEAN
    /\ ClassDefined
    /\ NoDirectCall

SpecZap ==
    /\ InitZap
    /\ [][NextNoDelete]_vars
    /\ \A scan_id \in ScanIds : WF_vars(perform_scan_async(scan_id))

\* Direct calls of perform_nmap_scan on any host, with any arguments.
InitNmap ==
    /\ active_scans = << >>
    /\ scan_results = << >>
    /\ pc = [i \in ScanIds |-> "none"]
    /\ zap_process = [i \in ScanIds |-> "unbound"]
    /\ results = [i \in ScanIds |-> << >>]
    /\ exc = [i \in ScanIds |-> "None"]
    /\ resp = NoResponse
    /\ generated = 0
    /\ installed \in SUBSET Tools
    /\ port = [i \in ScanIds |-> Unbound]
    /\ calls = [i \in ScanIds |-> << >>]
    /\ main_pc = "none"
    /\ main_zap = "unbound"
    /\ main_calls = << >>
    /\ main_exc = "None"
    /\ main_results = << >>
    /\ NormalEnv
    /\ ClassDefined
    /\ \E host \in Hosts, ports \in PortArgs, run \in NmapRuns(installed) :
           fn_args = [host |-> host, ports |-> ports, run |-> run]
    /\ fn_ret = NotCalled

NextNmap == call_perform_nmap_scan

SpecNmap == InitNmap /\ [][NextNmap]_vars

----
\* Helpers of the properties.

\* The ids of the jobs in either table.
KnownIds == DOMAIN active_scans \cup DOMAIN scan_results

\* The lifecycle status of a job.
StatusOf(scan_id) == active_scans[scan_id]["status"]

\* What a GET of scan_id issued in the state after this step returns.
NextGet(scan_id) == get_scan_response(active_scans', scan_results', scan_id)

----
\* C1: a POST /scans whose body has 'image' adds exactly one job, under an
\* id no job has, with status pending, starts exactly one worker thread for
\* that id, which has not run yet when the handler answers 201 with that
\* id and status "pending".
C1_CreateScan ==
    [][\A body \in Bodies :
          (HasImage(body) /\ create_scan(body)) =>
              \E new \in ScanIds :
                  /\ new \notin KnownIds
                  /\ DOMAIN active_scans' = DOMAIN active_scans \cup {new}
                  /\ \A j \in DOMAIN active_scans :
                         active_scans'[j] = active_scans[j]
                  /\ active_scans'[new]["status"] = "pending"
                  /\ scan_results' = scan_results
                  /\ pc[new] = "none"
                  /\ pc' = [pc EXCEPT ![new] = "set_running"]
                  /\ resp'.code = 201
                  /\ resp'.body.scan_id = new
                  /\ resp'.body.status = "pending"]_vars

\* C1 witness: a second job was just created while the first one exists.
C1_Witness ==
    /\ resp.op = "create"
    /\ resp.code = 201
    /\ resp.body.scan_id = 2
    /\ DOMAIN active_scans = {1, 2}
    /\ active_scans[2]["status"] = "pending"
    /\ pc[2] = "set_running"

\* C2: a POST /scans with no body or without 'image' answers 400, adds no
\* entry to either table and starts no worker.
C2_CreateScanMissingImage ==
    [][\A body \in Bodies :
          (~HasImage(body) /\ create_scan(body)) =>
              /\ resp'.code = 400
              /\ UNCHANGED <<active_scans, scan_results, pc>>]_vars

\* C2 witness: a 400 was answered while a job exists.
C2_Witness ==
    /\ resp.op = "create"
    /\ resp.code = 400
    /\ DOMAIN active_scans # {}

\* C3: GET and DELETE of an id in neither table answer 404 "Scan not found"
\* and leave both tables as they are.
C3_UnknownIdNotFound ==
    [][\A scan_id \in RequestIds :
          (scan_id \notin KnownIds /\ (get_scan(scan_id) \/ delete_scan(scan_id)))
              => /\ resp'.code = 404
                 /\ resp'.body = [error |-> "Scan not found"]
                 /\ UNCHANGED <<active_scans, scan_results>>]_vars

\* C3 witness: a DELETE of an unknown id was answered 404 while another job
\* exists.
C3_Witness ==
    /\ resp.op = "delete"
    /\ resp.code = 404
    /\ resp.id \notin KnownIds
    /\ KnownIds # {}

\* C4: a DELETE of a job whose status is pending or running answers 200
\* "Scan cancelled", sets the status to cancelled and keeps the job, so that
\* a GET issued right after it answers 200 with status cancelled.
C4_DeleteActiveCancels ==
    [][\A scan_id \in ScanIds :
          (/\ scan_id \in DOMAIN active_scans
           /\ StatusOf(scan_id) \in {"pending", "running"}
           /\ delete_scan(scan_id))
              => /\ resp'.code = 200
                 /\ resp'.body = [message |-> "Scan cancelled"]
                 /\ active_scans'[scan_id]["status"] = "cancelled"
                 /\ NextGet(scan_id).code = 200
                 /\ DictGet(NextGet(scan_id).body, "status", "absent")
                        = "cancelled"]_vars

\* C5: a DELETE of a job whose worker ran to completion removes the job: a
\* GET issued after it answers 404.
C5_DeleteCompletedRemoves ==
    [][\A scan_id \in ScanIds :
          (/\ scan_id \in DOMAIN active_scans
           /\ pc[scan_id] = "done"
           /\ StatusOf(scan_id) = "completed"
           /\ delete_scan(scan_id))
              => NextGet(scan_id).code = 404]_vars

\* C6: a DELETE of a job whose status is failed removes the job from the
\* tables (GET and the list no longer return it) instead of cancelling it.
C6_DeleteFailedRemoves ==
    [][\A scan_id \in ScanIds :
          (/\ scan_id \in DOMAIN active_scans
           /\ StatusOf(scan_id) = "failed"
           /\ delete_scan(scan_id))
              => /\ scan_id \notin DOMAIN active_scans'
                 /\ scan_id \notin DOMAIN scan_results'
                 /\ NextGet(scan_id).code = 404]_vars

\* C7: when no client deletes and the worker of a job has finished without
\* a fault, every GET of the job answers status "completed" together with
\* the result summary.
C7_GetCompleted ==
    \A scan_id \in DOMAIN active_scans :
        (/\ pc[scan_id] = "done"
         /\ StatusOf(scan_id) = "completed"
         /\ resp.op = "get"
         /\ resp.id = scan_id)
            => /\ resp.code = 200
               /\ "summary" \in DOMAIN resp.body
               /\ DictGet(resp.body, "status", "absent") = "completed"

\* C8: the list of GET /scans has exactly one entry for every known job,
\* with the job's id and its current lifecycle status.
C8_ListScans ==
    resp.op = "list" =>
        LET scans == resp.body.scans
        IN /\ \A scan_id \in KnownIds :
                  Cardinality({i \in DOMAIN scans : scans[i].id = scan_id}) = 1
           /\ \A i \in DOMAIN scans :
                  /\ scans[i].id \in KnownIds
                  /\ scans[i].status \in Statuses
                  /\ scans[i].status = StatusOf(scans[i].id)

\* C9: a job has an entry in scan_results iff its status is completed.
C9_ResultIffCompleted ==
    \A scan_id \in DOMAIN active_scans :
        scan_id \in DOMAIN scan_results <=> StatusOf(scan_id) = "completed"

\* C10: a job's error field is set iff its status is failed.
C10_ErrorIffFailed ==
    \A scan_id \in DOMAIN active_scans :
        "error" \in DOMAIN active_scans[scan_id]
            <=> StatusOf(scan_id) = "failed"

----
\* Helpers of the properties about the worker.

\* The names of the calls of a log, in order.
Fns(log) == [i \in DOMAIN log |-> log[i].fn]

\* How many times fn was called in a log.
Count(log, fn) == Cardinality({i \in DOMAIN log : log[i].fn = fn})

\* The vulnerability probe and the tool adapters.
ProbeAndAdapters ==
    {"test_vulnerabilities", "perform_nmap_scan", "perform_nikto_scan",
     "perform_zap_scan"}

\* The status of a job after the step.
NextStatusOf(scan_id) == active_scans'[scan_id]["status"]

----
\* C11: a job's status only moves along pending -> provisioning -> running
\* -> {completed, failed}, and becomes cancelled only from pending or
\* running, by a DELETE; completed, failed and cancelled are never left.
\* The code writes no status "provisioning": the move from pending straight
\* to running is counted as a move along the chain.
C11_StatusTransitions ==
    [][\A scan_id \in ScanIds :
          (/\ scan_id \in DOMAIN active_scans
           /\ NextStatusOf(scan_id) # StatusOf(scan_id))
              => LET a == StatusOf(scan_id)
                     b == NextStatusOf(scan_id)
                 IN \/ a = "pending" /\ b \in {"provisioning", "running"}
                    \/ a = "provisioning" /\ b \in {"running", "failed"}
                    \/ a = "running" /\ b \in {"completed", "failed"}
                    \/ /\ a \in {"pending", "running"}
                       /\ b = "cancelled"
                       /\ delete_scan(scan_id)]_vars

\* C12: a job cancelled by a DELETE before its worker has run its first
\* statement stays cancelled, and its worker never calls
\* run_docker_container: no step taken from such a state changes the status
\* or provisions.
C12_CancelBeforeStart ==
    [][\A scan_id \in ScanIds :
          (/\ scan_id \in DOMAIN active_scans
           /\ pc[scan_id] = "set_running"
           /\ StatusOf(scan_id) = "cancelled")
              => /\ NextStatusOf(scan_id) = "cancelled"
                 /\ Count(calls'[scan_id], "run_docker_container") = 0]_vars

\* The worker of scan_id is between its first statement and its end.
WorkerRunning(scan_id) == pc[scan_id] \notin {"none", "set_running", "done"}

\* C13: once a job is cancelled while its worker is running, the worker
\* starts no further vulnerability probe and no further tool adapter for it:
\* no worker step taken with the status cancelled calls one.
C13_CancelWhileRunning ==
    [][\A scan_id \in ScanIds :
          (/\ scan_id \in DOMAIN active_scans
           /\ WorkerRunning(scan_id)
           /\ StatusOf(scan_id) = "cancelled"
           /\ perform_scan_async(scan_id))
              => \A fn \in ProbeAndAdapters :
                     Count(calls'[scan_id], fn) = Count(calls[scan_id], fn)]_vars

\* C14: a worker that has called run_docker_container calls
\* cleanup_container exactly once before it ends, on every exit path.
C14_CleanupOnEveryPath ==
    \A scan_id \in ScanIds :
        /\ Count(calls[scan_id], "cleanup_container") <= 1
        /\ (pc[scan_id] = "done"
             /\ Count(calls[scan_id], "run_docker_container") > 0)
                => Count(calls[scan_id], "cleanup_container") = 1

\* C15: in every state where a job's status reads completed,
\* cleanup_container has already returned for that job.
C15_CompletedAfterCleanup ==
    \A scan_id \in DOMAIN active_scans :
        StatusOf(scan_id) = "completed"
            => Count(calls[scan_id], "cleanup_container") > 0

\* run_docker_container returned False for the job.
ContainerFailed(scan_id) ==
    \E i \in DOMAIN calls[scan_id] :
        calls[scan_id][i] = [fn |-> "run_docker_container", val |-> "False"]

\* C16: when run_docker_container returns False for a job, no vulnerability
\* probe and no tool adapter is called for it, no result is stored for it,
\* and the worker ends with the job's status failed and its error
\* "Failed to start container".
C16_ContainerStartFailure ==
    \A scan_id \in ScanIds :
        ContainerFailed(scan_id)
            => /\ \A fn \in ProbeAndAdapters : Count(calls[scan_id], fn) = 0
               /\ scan_id \notin DOMAIN scan_results
               /\ pc[scan_id] = "done"
                      => /\ StatusOf(scan_id) = "failed"
                         /\ DictGet(active_scans[scan_id], "error", "None")
                                = "Failed to start container"

\* A worker has ended after its container failed to start.
C16_Witness ==
    \E scan_id \in ScanIds : ContainerFailed(scan_id) /\ pc[scan_id] = "done"

\* The values logged with the calls of fn.
Vals(log, fn) == {log[i].val : i \in {j \in DOMAIN log : log[j].fn = fn}}

\* A run that called start_zap and has ended called stop_zap exactly once,
\* with the handle start_zap returned; no run calls stop_zap twice.
StoppedOnce(log, ended) ==
    /\ Count(log, "stop_zap") <= 1
    /\ (ended /\ Count(log, "start_zap") > 0)
           => /\ Count(log, "start_zap") = 1
              /\ Count(log, "stop_zap") = 1
              /\ Vals(log, "stop_zap") = Vals(log, "start_zap")

\* main() has ended: it returned, called sys.exit(1) or let an exception go.
MainEnded == main_pc \in {"exit_0", "exit_1", "raised"}

\* C17: the ZAP proxy started at the beginning of a scan is stopped exactly
\* once, with the handle start_zap returned, on every exit path of the API
\* worker and of the CLI main.
C17_StopZapOnce ==
    /\ \A scan_id \in ScanIds :
           StoppedOnce(calls[scan_id], pc[scan_id] = "done")
    /\ StoppedOnce(main_calls, MainEnded)

\* A worker has ended through its exception handler with a ZAP process
\* started.
C17_Witness ==
    \E scan_id \in ScanIds :
        /\ pc[scan_id] = "done"
        /\ Count(calls[scan_id], "test_vulnerabilities") = 1
        /\ Count(calls[scan_id], "perform_nmap_scan") = 0
        /\ Vals(calls[scan_id], "start_zap") = {"proc"}

\* Once perform_nmap_scan has returned, a run that has ended called each
\* adapter exactly once; no run calls an adapter twice.
AdaptersOnce(log, ended) ==
    /\ \A fn \in ProbeAndAdapters : Count(log, fn) <= 1
    /\ (ended /\ Vals(log, "perform_nmap_scan") \cap {"None", "record"} # {})
           => /\ Count(log, "perform_nikto_scan") = 1
              /\ Count(log, "perform_zap_scan") = 1

\* C18: within one job each tool adapter (nmap, nikto, ZAP scan) is called
\* exactly once, whatever the earlier adapters returned (a record or None),
\* in the API worker and in the CLI main.
C18_EachAdapterOnce ==
    /\ \A scan_id \in ScanIds :
           AdaptersOnce(calls[scan_id], pc[scan_id] = "done")
    /\ AdaptersOnce(main_calls, MainEnded)

\* A worker has ended on a host with none of the three tools: every adapter
\* returned None.
C18_Witness ==
    \E scan_id \in ScanIds :
        /\ pc[scan_id] = "done"
        /\ installed = {}
        /\ Count(calls[scan_id], "perform_zap_scan") = 1

\* C19: for every port value create_scan accepted and every combination of
\* adapter outcomes, a job whose container started and whose vulnerability
\* probe returned (so that the adapters were reached) ends with status
\* completed, not failed.
C19_AdapterNeverFailsJob ==
    \A scan_id \in ScanIds :
        (/\ pc[scan_id] = "done"
         /\ Count(calls[scan_id], "perform_nmap_scan") > 0)
            => StatusOf(scan_id) = "completed"

\* The dict perform_nmap_scan returned in the call made.
NmapValue == fn_ret.value

\* C20: perform_nmap_scan never raises, for every host and every `ports`
\* argument: it returns None exactly when the nmap binary is missing, a
\* record with success=True exactly when nmap exits with code 0, and
\* otherwise a record with success=False and the error (stderr on a
\* non-zero exit, "Timeout" on a timeout, the exception message otherwise).
C20_NmapNeverRaises ==
    fn_ret # NotCalled
        => /\ fn_ret.raised = "no"
           /\ NmapValue.none <=> fn_args.run.raised = "FileNotFoundError"
           /\ (~NmapValue.none /\ NmapValue.success)
                  <=> (fn_args.run.raised = "no" /\ fn_args.run.returncode = 0)
           /\ (~NmapValue.none /\ ~NmapValue.success)
                  => NmapValue.error =
                         IF fn_args.run.raised = "no" THEN fn_args.run.stderr
                         ELSE IF fn_args.run.raised = "TimeoutExpired"
                         THEN "Timeout"
                         ELSE fn_args.run.message

\* C21: perform_zap_scan always returns: a job that has reached the ZAP
\* stage eventually has status completed or failed, also when ZAP's spider
\* or active scan never reports 100.
C21_ZapStageEnds ==
    \A scan_id \in ScanIds :
        (pc[scan_id] = "zap_scan")
            ~> (/\ scan_id \in DOMAIN active_scans
                /\ StatusOf(scan_id) \in {"completed", "failed"})

----
\* The container name perform_scan_async gives to run_docker_container and
\* cleanup_container: it passes none (api.py:46, 95), so every job gets the
\* default of docker_manager.py:7 and :51.
container_name(scan_id) == "test-app"

\* The worker of scan_id is in flight and has started a container (its
\* run_docker_container returned True) that it has not yet cleaned up.
HoldsContainer(scan_id) ==
    /\ pc[scan_id] \notin {"none", "done"}
    /\ "True" \in Vals(calls[scan_id], "run_docker_container")
    /\ Count(calls[scan_id], "cleanup_container") = 0

\* The step is the call of a docker_manager function by the worker of
\* scan_id that runs `docker stop` and `docker rm` on the job's container
\* name (docker_manager.py:27-28, 54-56).
StopsAndRemoves(scan_id) ==
    /\ Len(calls'[scan_id]) = Len(calls[scan_id]) + 1
    /\ calls'[scan_id][Len(calls'[scan_id])].fn
           \in {"run_docker_container", "cleanup_container"}

\* C22: no two jobs use the same container name concurrently: the
\* provisioning (stop + rm + run) or the teardown of one job never stops or
\* removes the container that another in-flight job has started.
C22_NoSharedContainer ==
    [][\A a \in ScanIds : \A b \in ScanIds \ {a} :
          (HoldsContainer(b) /\ StopsAndRemoves(a))
              => container_name(a) # container_name(b)]_vars

----
\* The program from main(), with no DELETE, scanning an application that
\* may be down: then requests.get raises on every connection attempt
\* (main.py:70-80).
InitDown ==
    /\ active_scans = << >>
    /\ scan_results = << >>
    /\ pc = [i \in ScanIds |-> "none"]
    /\ zap_process = [i \in ScanIds |-> "unbound"]
    /\ results = [i \in ScanIds |-> << >>]
    /\ exc = [i \in ScanIds |-> "None"]
    /\ resp = NoResponse
    /\ generated = 0
    /\ installed \in SUBSET Tools
    /\ port = [i \in ScanIds |-> Unbound]
    /\ calls = [i \in ScanIds |-> << >>]
    /\ main_pc = "main"
    /\ main_zap = "unbound"
    /\ main_calls = << >>
    /\ main_exc = "None"
    /\ main_results = << >>
    /\ target_up \in BOOLEAN
    /\ zap_hangs = FALSE
    /\ ClassDefined
    /\ NoDirectCall

NextDown ==
    \/ main
    \/ \E body \in Bodies : main_pc = "run_api" /\ create_scan(body)
    \/ main_pc = "run_api" /\ list_scans
    \/ \E scan_id \in RequestIds : main_pc = "run_api" /\ get_scan(scan_id)
    \/ \E scan_id \in ScanIds : perform_scan_async(scan_id)

SpecDown == InitDown /\ [][NextDown]_vars

\* res is the result of a scan of an application that gave no answer:
\* connectivity is false and there are no findings.
NoConnectivityResult(res) ==
    /\ "connectivity" \in DOMAIN res
    /\ res["connectivity"] = FALSE
    /\ res["vulnerabilities"] = << >>

\* No vulnerability probe and no tool adapter was called in log.
NoProbeNoAdapter(log) == \A fn \in ProbeAndAdapters : Count(log, fn) = 0

\* C23: when the target never answers the connectivity probe, the scan ends
\* as a completed scan, not a failed one, whose result has connectivity
\* false and no vulnerabilities, and no vulnerability probe or tool adapter
\* is called.
C23_NoConnectivity ==
    ~target_up =>
        /\ NoProbeNoAdapter(main_calls)
        /\ main_pc = "export_results" => NoConnectivityResult(main_results)
        /\ \A scan_id \in ScanIds :
               "True" \in Vals(calls[scan_id], "run_docker_container") =>
                   /\ NoProbeNoAdapter(calls[scan_id])
                   /\ (pc[scan_id] = "done" /\ scan_id \in DOMAIN active_scans)
                          => /\ StatusOf(scan_id) = "completed"
                             /\ scan_id \in DOMAIN scan_results
                             /\ NoConnectivityResult(scan_results[scan_id])

----
\* How many tool adapters of a log executed, that is returned a success or
\* a failure record and not None.
Executed(log) ==
    Cardinality({i \in DOMAIN log :
                    /\ log[i].fn \in ProbeAndAdapters \ {"test_vulnerabilities"}
                    /\ log[i].val = "record"})

\* C24: in the result of a scan summary.tools_run is the number of tool
\* adapters that executed (returned a success or a failure record); an
\* adapter that returned None is not counted.
C24_ToolsRun ==
    /\ \A scan_id \in DOMAIN scan_results :
           scan_results[scan_id].summary.tools_run = Executed(calls[scan_id])
    /\ (main_pc = "export_results" /\ main_results.summary # << >>)
           => main_results.summary.tools_run = Executed(main_calls)

\* A stored result of a job one adapter of which executed while another
\* returned None.
C24_Witness ==
    \E scan_id \in DOMAIN scan_results :
        /\ scan_results[scan_id].summary.tools_run = 1
        /\ "None" \in Vals(calls[scan_id], "perform_nikto_scan")
        /\ "record" \in Vals(calls[scan_id], "perform_zap_scan")

----
\* Direct calls of the summary code of api.py:77-88 (the same code as
\* main.py:128-139 and tests.py:458-470) on any list of findings.

\* Longest list of findings passed to the summary code.
MaxVulns == 3

\* Findings as the probe reports them: a dict with a "type", or without one.
Findings ==
    {[type |-> "XSS"], [type |-> "SQL Injection"], [description |-> "finding"]}

\* The lists of at most n elements of S.
SeqsUpTo(S, n) == UNION {[1 .. k -> S] : k \in 0 .. n}

\* A results dict holding the findings and no tool result.
ResultsOf(vulnerabilities) ==
    [target |-> "base_url", vulnerabilities |-> vulnerabilities,
     tools |-> << >>, summary |-> << >>]

InitSummary ==
    /\ ServerStarted
    /\ installed = {}
    /\ NormalEnv
    /\ ClassDefined
    /\ \E vulnerabilities \in SeqsUpTo(Findings, MaxVulns), finding \in Findings :
           fn_args = [vulnerabilities |-> vulnerabilities, finding |-> finding]
    /\ fn_ret = NotCalled

\* The summary of the list, of the same list once more, and of the list
\* with one finding appended.
call_summary ==
    /\ fn_ret = NotCalled
    /\ fn_ret' = Returned(
           [first |-> Summary(ResultsOf(fn_args.vulnerabilities)),
            again |-> Summary(ResultsOf(fn_args.vulnerabilities)),
            appended |-> Summary(ResultsOf(
                Append(fn_args.vulnerabilities, fn_args.finding)))])
    /\ UNCHANGED <<active_scans, scan_results, worker_vars, resp, generated,
                   installed, port, env_vars, main_vars, fn_args, config_vars>>

NextSummary == call_summary

SpecSummary == InitSummary /\ [][NextSummary]_vars

\* The sum of the values of a dict of numbers.
RECURSIVE SumValues(_)
SumValues(d) ==
    IF DOMAIN d = {} THEN 0
    ELSE LET k == CHOOSE k \in DOMAIN d : TRUE
         IN d[k] + SumValues(DictDel(d, k))

\* The type a finding is counted under.
CountedAs(finding) ==
    IF "type" \in DOMAIN finding THEN finding["type"] ELSE "Unknown"

\* The count of type t in a summary, 0 when the type does not occur.
CountOf(s, t) == DictGet(s.vulnerability_types, t, 0)

----
\* C26: every result perform_basic_tests returns has a summary that agrees
\* with its two lists, summary.total_vulnerabilities = len(vulnerabilities)
\* and summary.tools_run = len(tools), also on the early return taken when
\* the connectivity check fails.
C26_SummaryOnEveryReturn ==
    main_pc = "export_results" =>
        /\ {"total_vulnerabilities", "tools_run"}
               \subseteq DOMAIN main_results.summary
        /\ main_results.summary["total_vulnerabilities"]
               = Len(main_results.vulnerabilities)
        /\ main_results.summary["tools_run"] = Len(main_results.tools)

----
\* The step is the call of fn by the worker of scan_id.
Calls(scan_id, fn) ==
    /\ Len(calls'[scan_id]) = Len(calls[scan_id]) + 1
    /\ calls'[scan_id][Len(calls'[scan_id])].fn = fn

\* The last call the worker of scan_id made before the step was fn, which
\* returned one of vals.
JustReturned(scan_id, fn, vals) ==
    /\ calls[scan_id] # << >>
    /\ calls[scan_id][Len(calls[scan_id])].fn = fn
    /\ calls[scan_id][Len(calls[scan_id])].val \in vals

\* The step writes "running" into the status of scan_id (api.py:37).
SetsRunning(scan_id) ==
    /\ scan_id \in DOMAIN active_scans
    /\ StatusOf(scan_id) # "running"
    /\ NextStatusOf(scan_id) = "running"

\* C27: within one job the stages happen in one order: the status is set to
\* running before any collaborator is called, so that the job is no longer
\* pending when the container is provisioned, provisioning has succeeded
\* before the vulnerability probe, the probe comes before nmap, nmap before
\* nikto, nikto before the ZAP scan, and the result is stored only after all
\* of them returned.
C27_StageOrder ==
    [][\A scan_id \in ScanIds :
          /\ SetsRunning(scan_id) => calls[scan_id] = << >>
          /\ Calls(scan_id, "run_docker_container")
                 => StatusOf(scan_id) # "pending"
          /\ Calls(scan_id, "test_vulnerabilities")
                 => JustReturned(scan_id, "run_docker_container", {"True"})
          /\ Calls(scan_id, "perform_nmap_scan")
                 => JustReturned(scan_id, "test_vulnerabilities", {"returned"})
          /\ Calls(scan_id, "perform_nikto_scan")
                 => JustReturned(scan_id, "perform_nmap_scan",
                                 {"None", "record"})
          /\ Calls(scan_id, "perform_zap_scan")
                 => JustReturned(scan_id, "perform_nikto_scan",
                                 {"None", "record"})
          /\ (scan_id \in DOMAIN scan_results' \ DOMAIN scan_results)
                 => JustReturned(scan_id, "perform_zap_scan",
                                 {"None", "record"})]_vars

\* A job went through all stages and its result is stored.
C27_Witness ==
    \E scan_id \in DOMAIN scan_results :
        Fns(calls[scan_id]) =
            <<"start_zap", "run_docker_container", "test_vulnerabilities",
              "perform_nmap_scan", "perform_nikto_scan", "perform_zap_scan">>

----
\* A stage of the worker of scan_id has raised.
StageRaised(scan_id) ==
    \E i \in DOMAIN calls[scan_id] : calls[scan_id][i].val = "raised"

\* The registry entries of scan_id: its job record and its result.
Entries(as, sr, scan_id) ==
    <<DictGet(as, scan_id, << >>), DictGet(sr, scan_id, << >>)>>

\* The worker of scan_id takes a step of its except clause (api.py:97-100).
HandlesException(scan_id) ==
    /\ pc[scan_id] \in {"except_status", "except_error"}
    /\ pc'[scan_id] # pc[scan_id]

\* C28: when a stage of perform_scan_async raises, the worker does not
\* crash: it goes through its except clause, the job ends with status failed
\* and with the exception's message as its error, no result is stored for
\* it, and the entries of every other job stay as they were.
C28_StageRaises ==
    /\ [](\A scan_id \in ScanIds :
             StageRaised(scan_id) =>
                 /\ pc[scan_id]
                        \in {"except_status", "except_error", "stop_zap", "done"}
                 /\ scan_id \notin DOMAIN scan_results
                 /\ pc[scan_id] \in {"stop_zap", "done"}
                        => /\ StatusOf(scan_id) = "failed"
                           /\ "error" \in DOMAIN active_scans[scan_id]
                 /\ pc[scan_id] = "stop_zap"
                        => /\ exc[scan_id] # "None"
                           /\ active_scans[scan_id]["error"] = exc[scan_id])
    /\ [][\A scan_id \in ScanIds :
             HandlesException(scan_id) =>
                 \A other \in ScanIds \ {scan_id} :
                     Entries(active_scans', scan_results', other)
                         = Entries(active_scans, scan_results, other)]_vars

\* The worker of one job has ended after perform_nmap_scan raised, and the
\* other job has completed.
C28_Witness ==
    \E scan_id \in ScanIds : \E other \in ScanIds \ {scan_id} :
        /\ "raised" \in Vals(calls[scan_id], "perform_nmap_scan")
        /\ pc[scan_id] = "done"
        /\ StatusOf(scan_id) = "failed"
        /\ other \in DOMAIN scan_results
        /\ StatusOf(other) = "completed"

----
\* run_docker_container (src/src/docker_manager.py:7-49), called directly.

\* docker_manager.py:24
default_ports == <<PyInt(default_port)>>

\* docker_manager.py:21-24: the list of ports to publish.
docker_ports(ports, single_port) ==
    IF ports = PyNone /\ single_port # PyNone THEN <<single_port>>
    ELSE IF ports = PyNone THEN default_ports
    ELSE ports.list

\* docker_manager.py:32-33: the -p options of the ports.
RECURSIVE publish(_)
publish(ports) ==
    IF ports = << >> THEN << >>
    ELSE <<"-p", py_str(ports[1]) \o ":" \o py_str(ports[1])>>
             \o publish(Tail(ports))

\* docker_manager.py:31-34
run_cmd(image_name, name, ports) ==
    <<"docker", "run", "-d", "--name", name>>
        \o publish(ports) \o <<image_name>>

\* What run_docker_container returns, and the commands it gave to
\* subprocess.run, in order.
DockerReturns(value, attempted) ==
    [raised |-> "no", message |-> "", value |-> value, attempted |-> attempted]

\* run_docker_container (its parameter container_name is `name` here, its
\* parameter port is `single_port`) when the three calls of subprocess.run
\* do stop, rm and run: an exception of any of them leaves the try block
\* for the except clauses of lines 44-49, and the exit codes of
\* `docker stop` and `docker rm` are not read.
run_docker_container(image_name, name, ports, single_port, stop, rm, run) ==
    LET stop_cmd == <<"docker", "stop", name>>
        rm_cmd == <<"docker", "rm", name>>
        cmd == run_cmd(image_name, name, docker_ports(ports, single_port))
    IN IF stop.raised # "no" THEN DockerReturns(FALSE, <<stop_cmd>>)
       ELSE IF rm.raised # "no" THEN DockerReturns(FALSE, <<stop_cmd, rm_cmd>>)
       ELSE IF run.raised # "no"
       THEN DockerReturns(FALSE, <<stop_cmd, rm_cmd, cmd>>)
       ELSE DockerReturns(run.returncode = 0, <<stop_cmd, rm_cmd, cmd>>)

\* The outcomes of one subprocess.run(['docker', ...]) on a host with
\* docker: exit code 0, a non-zero exit code, or an OSError of the fork.
DockerRuns ==
    {Completed(0, "", ""), Completed(1, "", "No such container"),
     RunRaises("OSError", "Cannot allocate memory")}

\* Without docker every call raises FileNotFoundError.
DockerMissing == RunRaises("FileNotFoundError", "No such file or directory: 'docker'")

InitDocker ==
    /\ ServerStarted
    /\ installed = {}
    /\ NormalEnv
    /\ ClassDefined
    /\ \E ports \in {PyNone, PyList(<<PyInt(8080)>>),
                     PyList(<<PyInt(80), PyInt(443)>>)},
          single_port \in {PyNone, PyInt(8080)},
          docker \in BOOLEAN :
         \E stop \in IF docker THEN DockerRuns ELSE {DockerMissing},
            rm \in IF docker THEN DockerRuns ELSE {DockerMissing},
            run \in IF docker THEN DockerRuns ELSE {DockerMissing} :
             fn_args = [image_name |-> "image", container_name |-> "test-app",
                        ports |-> ports, port |-> single_port,
                        stop |-> stop, rm |-> rm, run |-> run]
    /\ fn_ret = NotCalled

call_run_docker_container ==
    /\ fn_ret = NotCalled
    /\ fn_ret' = run_docker_container(
           fn_args.image_name, fn_args.container_name, fn_args.ports,
           fn_args.port, fn_args.stop, fn_args.rm, fn_args.run)
    /\ UNCHANGED <<active_scans, scan_results, worker_vars, resp, generated,
                   installed, port, env_vars, main_vars, fn_args, config_vars>>

NextDocker == call_run_docker_container

SpecDocker == InitDocker /\ [][NextDocker]_vars

\* The first n words of a command.
Words(cmd, n) == SubSeq(cmd, 1, n)

\* C29: run_docker_container never raises and always gives `docker stop`,
\* then `docker rm`, then `docker run` for the container name to
\* subprocess.run, in that order: a failed stop or rm (a non-zero exit code
\* or a raised error) never prevents the run attempt; it returns True
\* exactly when `docker run` exits with code 0.
C29_StopRmRun ==
    fn_ret.raised # "no call" =>
        /\ fn_ret.raised = "no"
        /\ Len(fn_ret.attempted) = 3
        /\ fn_ret.attempted[1] = <<"docker", "stop", fn_args.container_name>>
        /\ fn_ret.attempted[2] = <<"docker", "rm", fn_args.container_name>>
        /\ Words(fn_ret.attempted[3], 5)
               = <<"docker", "run", "-d", "--name", fn_args.container_name>>
        /\ fn_ret.value = TRUE
               <=> /\ Len(fn_ret.attempted) = 3
                   /\ fn_args.run.raised = "no"
                   /\ fn_args.run.returncode = 0

----
\* The class Config (src/src/config.py:9-142).  self.config is a dict whose
\* values are dicts; a value is either the very dict DEFAULT_CONFIG holds
\* under that key (a reference, as dict.copy() at config.py:55 leaves it) or
\* a dict only this instance holds.

\* Most Config instances constructed in one process.
MaxConfigs == 3

\* self.config[section] is DEFAULT_CONFIG[section], the same object.
Shared(section) == [kind |-> "shared", section |-> section, dict |-> << >>]

\* self.config[key] is a dict of this instance alone.
Own(dict) == [kind |-> "own", section |-> "", dict |-> dict]

\* The dict an entry of self.config stands for.
Deref(entry, class_dicts) ==
    IF entry.kind = "shared" THEN class_dicts[entry.section] ELSE entry.dict

\* self.config as nested dicts.
ConfigOf(instance, class_dicts) ==
    [k \in DOMAIN instance.config |-> Deref(instance.config[k], class_dicts)]

\* The configuration files on disk and what yaml.safe_load reads from
\* them; any other path is not a file.
ConfigFiles ==
    [docker_yaml |-> [docker |-> [default_container_name |-> "test-container"]],
     logging_yaml |-> [logging |-> [level |-> "DEBUG"]],
     custom_yaml |-> [custom |-> [new_key |-> "test_value"]]]

\* os.path.isfile(path)
isfile(path) == path \in DOMAIN ConfigFiles

\* The paths a Config is constructed with.
ConfigPaths == DOMAIN ConfigFiles \cup {"config.yaml"}

\* DEFAULT_CONFIG.copy() (config.py:55): a new dict with the same values.
copy(class_dicts) == [section \in DOMAIN class_dicts |-> Shared(section)]

\* _merge_config(self.config, update) (config.py:86-92) for an update whose
\* values are dicts of scalars: a key self.config has is merged into the
\* dict found there (line 90, whose inner call assigns each scalar at line
\* 92), another key gets the update's dict (line 92).  These are the
\* entries of self.config afterwards ...
merged_config(config, update) ==
    [k \in DOMAIN config \cup DOMAIN update |->
        IF k \notin DOMAIN update THEN config[k]
        ELSE IF k \notin DOMAIN config THEN Own(update[k])
        ELSE IF config[k].kind = "own"
        THEN Own(DictMerge(config[k].dict, update[k]))
        ELSE config[k]]

\* ... and these the dicts of DEFAULT_CONFIG afterwards: a dict self.config
\* shares with the class is merged in place.
merged_class_dicts(config, class_dicts, update) ==
    [section \in DOMAIN class_dicts |->
        IF \E k \in DOMAIN config \cap DOMAIN update :
               config[k] = Shared(section)
        THEN LET k == CHOOSE k \in DOMAIN config \cap DOMAIN update :
                          config[k] = Shared(section)
             IN DictMerge(class_dicts[section], update[k])
        ELSE class_dicts[section]]

\* Config(config_file) (config.py:53-56) with load_config (73-84).
Config_init(config_file) ==
    /\ Len(configs) < MaxConfigs
    /\ LET config == copy(DEFAULT_CONFIG)
       IN IF isfile(config_file)
          THEN /\ configs' = Append(configs,
                     [config_file |-> config_file,
                      config |-> merged_config(config,
                                               ConfigFiles[config_file])])
               /\ DEFAULT_CONFIG' = merged_class_dicts(
                      config, DEFAULT_CONFIG, ConfigFiles[config_file])
          ELSE /\ configs' = Append(configs,
                     [config_file |-> config_file, config |-> config])
               /\ UNCHANGED DEFAULT_CONFIG
    /\ UNCHANGED <<active_scans, scan_results, worker_vars, resp, generated,
                   installed, port, env_vars, main_vars, fn_vars>>

\* The calls of set() made: key "a.b" is <<"a", "b">>.
SetCalls ==
    {[keys |-> <<"docker", "default_container_name">>, value |-> "modified-app"],
     [keys |-> <<"logging", "level">>, value |-> "WARNING"],
     [keys |-> <<"custom", "new_key">>, value |-> "test_value"]}

\* configs[i].set(key, value) (config.py:120-130) for a key of two parts:
\* config[keys[0]] is made {} when missing (lines 126-127), then the dict
\* found there gets the value (lines 128, 130).
Config_set(i, keys, value) ==
    /\ i \in DOMAIN configs
    /\ LET config == configs[i].config
       IN IF keys[1] \notin DOMAIN config
          THEN /\ configs' = [configs EXCEPT ![i].config =
                     DictSet(config, keys[1], Own(DictSet(<< >>, keys[2], value)))]
               /\ UNCHANGED DEFAULT_CONFIG
          ELSE IF config[keys[1]].kind = "own"
          THEN /\ configs' = [configs EXCEPT ![i].config =
                     DictSet(config, keys[1],
                             Own(DictSet(config[keys[1]].dict, keys[2], value)))]
               /\ UNCHANGED DEFAULT_CONFIG
          ELSE /\ DEFAULT_CONFIG' =
                     [DEFAULT_CONFIG EXCEPT ![config[keys[1]].section] =
                         DictSet(@, keys[2], value)]
               /\ UNCHANGED configs
    /\ UNCHANGED <<active_scans, scan_results, worker_vars, resp, generated,
                   installed, port, env_vars, main_vars, fn_vars>>

\* configs[i].get(key, default) (config.py:108-118) for a key of two parts.
Config_get(instance, class_dicts, keys, default) ==
    LET config == ConfigOf(instance, class_dicts)
    IN IF keys[1] \in DOMAIN config /\ keys[2] \in DOMAIN config[keys[1]]
       THEN config[keys[1]][keys[2]]
       ELSE default

InitConfig ==
    /\ ServerStarted
    /\ installed = {}
    /\ NormalEnv
    /\ ClassDefined
    /\ NoDirectCall

NextConfig ==
    \/ \E config_file \in ConfigPaths : Config_init(config_file)
    \/ \E i \in 1 .. MaxConfigs : \E call \in SetCalls :
           Config_set(i, call.keys, call.value)

SpecConfig == InitConfig /\ [][NextConfig]_vars

\* The step constructs a Config, which is then the last of configs'.
Constructs == Len(configs') = Len(configs) + 1

\* C30: a Config constructed when no config file exists holds exactly the
\* built-in default values, for instance get('docker.default_container_name')
\* is 'test-app', whatever set() calls and config-file loads other instances
\* went through before.
C30_FreshConfigIsDefault ==
    [][(Constructs /\ ~isfile(configs'[Len(configs')].config_file))
          => /\ ConfigOf(configs'[Len(configs')], DEFAULT_CONFIG')
                    = BuiltInDefaults
             /\ Config_get(configs'[Len(configs')], DEFAULT_CONFIG',
                           <<"docker", "default_container_name">>, "None")
                    = "test-app"]_vars

====
